---- MODULE Spec2Model ----
(***************************************************************************)
(* MatrixFactorizationModel of collie/model/matrix_factorization.py.       *)
(*                                                                         *)
(* Tensors are modelled with integer entries.  A table of n rows is a      *)
(* sequence of n rows, row r of the model being row r-1 of the 0-indexed   *)
(* tensor; a row is a sequence of embedding_dim entries.  dropout_p is in  *)
(* percent.  torch.sigmoid is a fixed-point table in units of 1/SigScale,  *)
(* so a prediction under y_range is in units of 1/SigScale as well.        *)
(* Parameters are finite numbers and arithmetic is exact; a y_range is     *)
(* (min, max) with min <= max.  The caller is sequential.                  *)
(***************************************************************************)
EXTENDS Integers, Sequences, FiniteSets

VARIABLES hparams, user_biases, item_biases, user_embeddings, item_embeddings,
          dropout, training, phase, steps, call, checkpoint, saved_model, new_model

vars == <<hparams, user_biases, item_biases, user_embeddings, item_embeddings,
          dropout, training, phase, steps, call, checkpoint, saved_model, new_model>>

params == <<user_biases, item_biases, user_embeddings, item_embeddings>>

None == "None"

\* ---------------------------------------------------------------- bounds
\* longest index batch passed to forward
MaxBatch == 2
\* optimizer steps taken
MaxSteps == 1
\* seeds of the random initialisation: 0..MaxSeed
MaxSeed == 1
\* outcomes of one dropout draw: the mask codes 0..MaxMask
MaxMask == 7
\* parameters stay within -MaxVal..MaxVal
MaxVal == 2

\* ------------------------------------------------------- input value sets
NoRange == <<>>

\* the constructions explored: the interaction counts of the train data and
\* the constructor's embedding_dim, dropout_p (in percent) and y_range
HParams ==
  {[num_users |-> 2, num_items |-> 2, embedding_dim |-> 2, dropout_p |-> 0,
    y_range |-> NoRange],
   [num_users |-> 2, num_items |-> 1, embedding_dim |-> 2, dropout_p |-> 50,
    y_range |-> <<1, 5>>],
   [num_users |-> 1, num_items |-> 2, embedding_dim |-> 1, dropout_p |-> 50,
    y_range |-> NoRange],
   [num_users |-> 2, num_items |-> 1, embedding_dim |-> 2, dropout_p |-> 0,
    y_range |-> <<-2, -1>>]}

\* ------------------------------------------------------------ tensor ops
RECURSIVE SumSeq(_)
SumSeq(s) == IF s = <<>> THEN 0 ELSE s[1] + SumSeq(Tail(s))

\* .sum(axis=1) of an n x d tensor
SumAxis1(t) == [k \in 1..Len(t) |-> SumSeq(t[k])]

\* faulty variant of Mul: the elementwise sum
MulAsAdd(a, b) == [k \in 1..Len(a) |-> [c \in 1..Len(a[k]) |-> a[k][c] + b[k][c]]]

\* torch.mul of two n x d tensors
Mul(a, b) == [k \in 1..Len(a) |-> [c \in 1..Len(a[k]) |-> a[k][c] * b[k][c]]]

\* .squeeze(1) of an n x 1 tensor
Squeeze1(t) == [k \in 1..Len(t) |-> t[k][1]]

\* elementwise sum of two 1-d tensors
Add(a, b) == [k \in 1..Len(a) |-> a[k] + b[k]]

\* an index tensor is valid for a table when every index is a row of it
InRange(table, idx) == \A k \in 1..Len(idx) : idx[k] >= 0 /\ idx[k] < Len(table)

\* faulty variant of Embedding: every position reads the row of idx[1]
EmbeddingFirst(table, idx) ==
  IF InRange(table, idx)
  THEN [error |-> None, out |-> [k \in 1..Len(idx) |-> table[idx[1] + 1]]]
  ELSE [error |-> "IndexError", out |-> <<>>]

\* faulty variant of Embedding: an out-of-range index wraps around
EmbeddingWrap(table, idx) ==
  [error |-> None, out |-> [k \in 1..Len(idx) |-> table[(idx[k] % Len(table)) + 1]]]

\* nn.Embedding.__call__: row idx[k] of the table for every k, or an
\* IndexError when an index is no row of the table
Embedding(table, idx) ==
  IF InRange(table, idx)
  THEN [error |-> None, out |-> [k \in 1..Len(idx) |-> table[idx[k] + 1]]]
  ELSE [error |-> "IndexError", out |-> <<>>]

\* the keep-mask of an n x d tensor with code m: element (k, c) is dropped
\* when bit (c - 1) * n + (k - 1) of m is set
MaskOf(m, n, d) ==
  [k \in 1..n |-> [c \in 1..d |-> (m \div (2 ^ ((c - 1) * n + (k - 1)))) % 2 = 0]]

\* the masks nn.Dropout can draw for an n x d tensor: nothing is dropped in
\* evaluation mode or with p = 0, any subset of the elements otherwise
Masks(p, train, n, d) ==
  IF train /\ p > 0
  THEN {MaskOf(m, n, d) : m \in {c \in 0..MaxMask : c < 2 ^ (n * d)}}
  ELSE {MaskOf(0, n, d)}

\* faulty variant of Dropout: active in evaluation mode too
DropoutAlways(p, train, x, mask) ==
  [k \in 1..Len(x) |-> [c \in 1..Len(x[k]) |->
     IF mask[k][c] THEN (x[k][c] * 100) \div (100 - p) ELSE 0]]

\* nn.Dropout.__call__: identity in evaluation mode; in training mode the
\* dropped elements are zeroed and the survivors scaled by 1 / (1 - p)
Dropout(p, train, x, mask) ==
  IF ~train THEN x
  ELSE [k \in 1..Len(x) |-> [c \in 1..Len(x[k]) |->
          IF mask[k][c] THEN (x[k][c] * 100) \div (100 - p) ELSE 0]]

SigScale == 1000
SigTable == <<500, 731, 881, 953, 982, 993, 998, 999>>

\* torch.sigmoid, in units of 1 / SigScale; saturates as the float does
Sigmoid(x) ==
  IF x >= Len(SigTable) THEN SigScale
  ELSE IF x <= -Len(SigTable) THEN 0
  ELSE IF x >= 0 THEN SigTable[x + 1]
  ELSE SigScale - SigTable[1 - x]

\* faulty variant of Rescale: the offset y_range[0] is left out
RescaleNoOffset(y_range, score) == Sigmoid(score) * (y_range[2] - y_range[1])

\* faulty variant of Rescale: the two ends of y_range swapped
RescaleSwapped(y_range, score) ==
  Sigmoid(score) * (y_range[1] - y_range[2]) + y_range[2] * SigScale

\* sigmoid(preds) * (y_range[1] - y_range[0]) + y_range[0], units 1 / SigScale
Rescale(y_range, score) ==
  Sigmoid(score) * (y_range[2] - y_range[1]) + y_range[1] * SigScale

\* faulty variant of Scores: the item bias is left out
ScoresNoItemBias(ue, ie, ub, ib, p, train, users, items, umask, imask) ==
  Add(SumAxis1(Mul(Dropout(p, train, Embedding(ue, users).out, umask),
                   Dropout(p, train, Embedding(ie, items).out, imask))),
      Squeeze1(Embedding(ub, users).out))

\* the raw score of forward, before the y_range rescaling
Scores(ue, ie, ub, ib, p, train, users, items, umask, imask) ==
  Add(Add(SumAxis1(Mul(Dropout(p, train, Embedding(ue, users).out, umask),
                       Dropout(p, train, Embedding(ie, items).out, imask))),
          Squeeze1(Embedding(ub, users).out)),
      Squeeze1(Embedding(ib, items).out))

\* the value forward returns
Preds(y_range, scores) ==
  IF y_range # NoRange THEN [k \in 1..Len(scores) |-> Rescale(y_range, scores[k])]
  ELSE scores

\* ------------------------------------------------------ framework layers
\* a value of the initial distribution, in -1..1
Centered(x) == ((x + 1) % 3) - 1

\* ZeroEmbedding: an n x d table of zeros
ZeroEmbedding(n, d) == [r \in 1..n |-> [c \in 1..d |-> 0]]

\* ScaledEmbedding: an n x d table of small random values; the values depend
\* on the state of the random generator, seed, and on the draws made before
\* the layer was built, salt
ScaledEmbedding(n, d, seed, salt) ==
  [r \in 1..n |-> [c \in 1..d |-> Centered(seed * (r + c + salt))]]

\* ------------------------------------------------------------ the model
\* the record of the last call and what it returned to its caller
Call(op, users, items, umask, imask, scores, preds, error) ==
  [op |-> op, users |-> users, items |-> items, umask |-> umask, imask |-> imask,
   scores |-> scores, preds |-> preds, error |-> error]

\* the caller holds no returned value
NoCall == Call("none", <<>>, <<>>, <<>>, <<>>, <<>>, <<>>, None)

\* no file written yet; no model object yet
NoFile == [status |-> "none"]
NoModel == [status |-> "none"]

\* __init__: every argument is stored as a hyperparameter, no layer exists yet
\* and the module is in training mode
Init ==
  /\ hparams \in HParams
  /\ user_biases = <<>>
  /\ item_biases = <<>>
  /\ user_embeddings = <<>>
  /\ item_embeddings = <<>>
  /\ dropout = None
  /\ training = TRUE
  /\ phase = "constructed"
  /\ steps = 0
  /\ call = NoCall
  /\ checkpoint = NoFile
  /\ saved_model = NoModel
  /\ new_model = NoModel

\* faulty variant of SetupLayers: bias tables of width embedding_dim
SetupLayersBiasDim(hp, seed) ==
  [user_biases |-> ZeroEmbedding(hp.num_users, hp.embedding_dim),
   item_biases |-> ZeroEmbedding(hp.num_items, hp.embedding_dim),
   user_embeddings |-> ScaledEmbedding(hp.num_users, hp.embedding_dim, seed, 0),
   item_embeddings |-> ScaledEmbedding(hp.num_items, hp.embedding_dim, seed, 1),
   dropout |-> hp.dropout_p]

\* the layers _setup_model builds from the hyperparameters
SetupLayers(hp, seed) ==
  [user_biases |-> ZeroEmbedding(hp.num_users, 1),
   item_biases |-> ZeroEmbedding(hp.num_items, 1),
   user_embeddings |-> ScaledEmbedding(hp.num_users, hp.embedding_dim, seed, 0),
   item_embeddings |-> ScaledEmbedding(hp.num_items, hp.embedding_dim, seed, 1),
   dropout |-> hp.dropout_p]

\* _setup_model, called once after prepare_data
SetupModel ==
  /\ phase = "constructed"
  /\ \E seed \in 0..MaxSeed :
       LET m == SetupLayers(hparams, seed) IN
         /\ user_biases' = m.user_biases
         /\ item_biases' = m.item_biases
         /\ user_embeddings' = m.user_embeddings
         /\ item_embeddings' = m.item_embeddings
         /\ dropout' = m.dropout
  /\ phase' = "ready"
  /\ UNCHANGED <<hparams, training, steps, call, checkpoint, saved_model, new_model>>

\* model.train()
Train ==
  /\ phase = "ready"
  /\ call = NoCall
  /\ ~training
  /\ training' = TRUE
  /\ UNCHANGED <<hparams, params, dropout, phase, steps, call, checkpoint,
                 saved_model, new_model>>

\* model.eval()
Eval ==
  /\ phase = "ready"
  /\ call = NoCall
  /\ training
  /\ training' = FALSE
  /\ UNCHANGED <<hparams, params, dropout, phase, steps, call, checkpoint,
                 saved_model, new_model>>

AddRow(a, delta, b) == [c \in 1..Len(a) |-> a[c] + delta * b[c]]

Bounded(row) == \A c \in 1..Len(row) : row[c] >= -MaxVal /\ row[c] <= MaxVal

\* one optimizer step of the trainer on a pair (u, i): a gradient step of
\* size delta on the two bias scalars and the two embedding rows of the pair
OptimizerStep ==
  /\ phase = "ready"
  /\ call = NoCall
  /\ training
  /\ steps < MaxSteps
  /\ \E u \in 1..Len(user_biases), i \in 1..Len(item_biases), delta \in {-1, 1} :
       LET ub == AddRow(user_biases[u], delta, <<1>>)
           ib == AddRow(item_biases[i], delta, <<1>>)
           ue == AddRow(user_embeddings[u], delta, item_embeddings[i])
           ie == AddRow(item_embeddings[i], delta, user_embeddings[u])
       IN /\ Bounded(ub) /\ Bounded(ib) /\ Bounded(ue) /\ Bounded(ie)
          /\ user_biases' = [user_biases EXCEPT ![u] = ub]
          /\ item_biases' = [item_biases EXCEPT ![i] = ib]
          /\ user_embeddings' = [user_embeddings EXCEPT ![u] = ue]
          /\ item_embeddings' = [item_embeddings EXCEPT ![i] = ie]
  /\ steps' = steps + 1
  /\ UNCHANGED <<hparams, dropout, training, phase, call, checkpoint, saved_model,
                 new_model>>

\* the index tensors a caller passes: equal length n, user indices with one
\* out-of-range value below the table, item indices with one above it
Batches(n) == [1..n -> (-1)..(hparams.num_users - 1)] \X [1..n -> 0..hparams.num_items]

\* forward(users, items): the two lookups fail on an out-of-range index,
\* before anything is computed
ForwardCall(users, items) ==
  IF \/ Embedding(user_embeddings, users).error # None
     \/ Embedding(item_embeddings, items).error # None
  THEN call' = Call("forward", users, items, <<>>, <<>>, <<>>, <<>>, "IndexError")
  ELSE \E umask, imask \in Masks(dropout, training, Len(users), hparams.embedding_dim) :
         LET scores == Scores(user_embeddings, item_embeddings, user_biases,
                              item_biases, dropout, training, users, items,
                              umask, imask)
         IN call' = Call("forward", users, items, umask, imask, scores,
                         Preds(hparams.y_range, scores), None)

\* a call of forward on a batch
Forward ==
  /\ phase = "ready"
  /\ call = NoCall
  /\ \E n \in 0..MaxBatch : \E b \in Batches(n) : ForwardCall(b[1], b[2])
  /\ UNCHANGED <<hparams, params, dropout, training, phase, steps, checkpoint,
                 saved_model, new_model>>

\* in evaluation, a second call of forward on the batch of the call before it
ForwardAgain ==
  /\ phase = "ready"
  /\ call.op = "forward"
  /\ ~training
  /\ ForwardCall(call.users, call.items)
  /\ UNCHANGED <<hparams, params, dropout, training, phase, steps, checkpoint,
                 saved_model, new_model>>

\* faulty variant of GetItemEmbeddings: returns the user table
GetItemEmbeddingsUsers ==
  /\ phase = "ready"
  /\ call = NoCall
  /\ call' = Call("get_item_embeddings", <<>>, <<>>, <<>>, <<>>, <<>>,
                  user_embeddings, None)
  /\ UNCHANGED <<hparams, params, dropout, training, phase, steps, checkpoint,
                 saved_model, new_model>>

\* _get_item_embeddings()
GetItemEmbeddings ==
  /\ phase = "ready"
  /\ call = NoCall
  /\ call' = Call("get_item_embeddings", <<>>, <<>>, <<>>, <<>>, <<>>,
                  item_embeddings, None)
  /\ UNCHANGED <<hparams, params, dropout, training, phase, steps, checkpoint,
                 saved_model, new_model>>

\* the caller is sequential: it holds the value a call returned (or the error
\* it raised) until it drops it, and only then goes on
Discard ==
  /\ call # NoCall
  /\ call' = NoCall
  /\ UNCHANGED <<hparams, params, dropout, training, phase, steps, checkpoint,
                 saved_model, new_model>>

\* the state_dict of the four layers
StateDict(ub, ib, ue, ie) ==
  [k \in {"user_biases.weight", "item_biases.weight",
          "user_embeddings.weight", "item_embeddings.weight"} |->
     CASE k = "user_biases.weight" -> ub
       [] k = "item_biases.weight" -> ib
       [] k = "user_embeddings.weight" -> ue
       [] k = "item_embeddings.weight" -> ie]

\* save_model(filename): the checkpoint holds the state_dict and the
\* hyperparameters; saved_model remembers the model as it was when saved
SaveModel ==
  /\ phase = "ready"
  /\ call = NoCall
  /\ checkpoint' = [status |-> "written", hparams |-> hparams,
                    state_dict |-> StateDict(user_biases, item_biases,
                                             user_embeddings, item_embeddings)]
  /\ saved_model' = [status |-> "saved", hparams |-> hparams,
                     user_biases |-> user_biases, item_biases |-> item_biases,
                     user_embeddings |-> user_embeddings,
                     item_embeddings |-> item_embeddings, dropout |-> dropout]
  /\ new_model' = NoModel
  /\ UNCHANGED <<hparams, params, dropout, training, phase, steps, call>>

Shape(t) == <<Len(t), IF Len(t) > 0 THEN Len(t[1]) ELSE 0>>

DefaultEmbeddingDim == 30
DefaultDropoutP == 0

\* the arguments __init__ passes on when only load_model_path is given
InitArguments(path) ==
  [embedding_dim |-> DefaultEmbeddingDim, dropout_p |-> DefaultDropoutP,
   y_range |-> NoRange, load_model_path |-> path]

\* faulty variant of LoadedHParams: the constructor's defaults win
LoadedHParamsDefaults(args, file) ==
  [file.hparams EXCEPT !.embedding_dim = args.embedding_dim,
                       !.dropout_p = args.dropout_p, !.y_range = args.y_range]

\* the hyperparameters of a model built with load_model_path: those of the
\* checkpoint, whatever the other arguments
LoadedHParams(args, file) == file.hparams

\* MatrixFactorizationModel(load_model_path=...): the hyperparameters come from
\* the checkpoint, _setup_model builds the layers from them, and load_state_dict
\* copies a tensor into each layer, failing on a shape mismatch
LoadModel ==
  /\ checkpoint.status = "written"
  /\ new_model.status = "none"
  /\ \E seed \in 0..MaxSeed :
       LET hp == LoadedHParams(InitArguments("model.pth"), checkpoint)
           m == SetupLayers(hp, seed)
           sd == checkpoint.state_dict
       IN IF /\ Shape(m.user_biases) = Shape(sd["user_biases.weight"])
             /\ Shape(m.item_biases) = Shape(sd["item_biases.weight"])
             /\ Shape(m.user_embeddings) = Shape(sd["user_embeddings.weight"])
             /\ Shape(m.item_embeddings) = Shape(sd["item_embeddings.weight"])
          THEN new_model' = [status |-> "loaded", hparams |-> hp,
                             user_biases |-> sd["user_biases.weight"],
                             item_biases |-> sd["item_biases.weight"],
                             user_embeddings |-> sd["user_embeddings.weight"],
                             item_embeddings |-> sd["item_embeddings.weight"],
                             dropout |-> m.dropout]
          ELSE new_model' = [status |-> "RuntimeError"]
  /\ UNCHANGED <<hparams, params, dropout, training, phase, steps, call, checkpoint,
                 saved_model>>

\* setup, training and the two calls
Next ==
  \/ SetupModel
  \/ Train
  \/ Eval
  \/ OptimizerStep
  \/ Forward
  \/ ForwardAgain
  \/ GetItemEmbeddings
  \/ Discard

Spec == Init /\ [][Next]_vars

\* setup, training, and saving and loading the model
NextCheckpoint ==
  \/ SetupModel
  \/ Train
  \/ Eval
  \/ OptimizerStep
  \/ SaveModel
  \/ LoadModel

SpecCheckpoint == Init /\ [][NextCheckpoint]_vars

\* ------------------------------------------------------------ properties
\* the last call was a forward call that returned predictions
ForwardOk == call.op = "forward" /\ call.error = None

\* the batch length of the last call
N == Len(call.users)

\* the rows and the bias scalars pair k of the last call indexes
URow(k) == user_embeddings[call.users[k] + 1]
IRow(k) == item_embeddings[call.items[k] + 1]
UBias(k) == user_biases[call.users[k] + 1][1]
IBias(k) == item_biases[call.items[k] + 1][1]

RECURSIVE DotUpTo(_, _, _)
DotUpTo(a, b, c) == IF c = 0 THEN 0 ELSE a[c] * b[c] + DotUpTo(a, b, c - 1)

\* the dot product of two rows
DotProduct(a, b) == DotUpTo(a, b, Len(a))

AllZero(table) == \A r \in 1..Len(table) : \A c \in 1..Len(table[r]) : table[r][c] = 0

DropoutDisabled == dropout = 0 \/ ~training

\* an element of the last call that dropout kept is scaled, a dropped one is 0
Kept(keep, x) == IF keep THEN (x * 100) \div (100 - dropout) ELSE 0

RECURSIVE MaskedDotUpTo(_, _)
MaskedDotUpTo(k, c) ==
  IF c = 0 THEN 0
  ELSE Kept(call.umask[k][c], URow(k)[c]) * Kept(call.imask[k][c], IRow(k)[c])
       + MaskedDotUpTo(k, c - 1)

\* the prediction forward returns for a raw score under the model's y_range
Output(score) ==
  IF hparams.y_range = NoRange THEN score
  ELSE hparams.y_range[1] * SigScale
       + Sigmoid(score) * (hparams.y_range[2] - hparams.y_range[1])

\* C1: with dropout disabled and zero biases, the score of every pair of the
\* batch is the dot product of its two embedding rows
C1_ScoreIsDotProduct ==
  (ForwardOk /\ DropoutDisabled /\ AllZero(user_biases) /\ AllZero(item_biases))
    => \A k \in 1..N :
         /\ call.scores[k] = DotProduct(URow(k), IRow(k))
         /\ hparams.y_range = NoRange => call.preds[k] = DotProduct(URow(k), IRow(k))

C1_Witness ==
  /\ ForwardOk /\ DropoutDisabled /\ AllZero(user_biases) /\ AllZero(item_biases)
  /\ hparams.embedding_dim = 2 /\ hparams.y_range = NoRange
  /\ N = 2 /\ call.preds[1] # 0 /\ call.preds[1] # call.preds[2]

\* C2: with a y_range (min, max), every prediction lies within [min, max] and
\* is min + sigmoid(score) * (max - min), in training and in evaluation mode
C2_PredsWithinRange ==
  (ForwardOk /\ hparams.y_range # NoRange)
    => \A k \in 1..N :
         /\ call.preds[k] >= hparams.y_range[1] * SigScale
         /\ call.preds[k] <= hparams.y_range[2] * SigScale
         /\ call.preds[k] = hparams.y_range[1] * SigScale
              + Sigmoid(call.scores[k]) * (hparams.y_range[2] - hparams.y_range[1])

C2_Witness ==
  /\ ForwardOk /\ hparams.y_range # NoRange /\ training /\ dropout > 0
  /\ N = 2 /\ ~call.umask[1][1] /\ call.scores[2] < 0
  /\ call.preds[2] < call.preds[1]

\* C3: with zeroed embeddings the score of every pair is user_bias[u] +
\* item_bias[i], whatever the dropout probability and the mode
C3_BiasOnly ==
  (ForwardOk /\ AllZero(user_embeddings) /\ AllZero(item_embeddings))
    => \A k \in 1..N :
         /\ call.scores[k] = UBias(k) + IBias(k)
         /\ hparams.y_range = NoRange => call.preds[k] = UBias(k) + IBias(k)

C3_Witness ==
  /\ ForwardOk /\ AllZero(user_embeddings) /\ AllZero(item_embeddings)
  /\ training /\ dropout > 0 /\ N = 2 /\ ~call.imask[1][1]
  /\ UBias(1) = 0 /\ IBias(1) # 0 /\ call.scores[1] # call.scores[2]

\* the indices of the last call are all rows of the tables
ValidBatch ==
  /\ \A k \in 1..Len(call.users) :
       call.users[k] >= 0 /\ call.users[k] < hparams.num_users
  /\ \A k \in 1..Len(call.items) :
       call.items[k] >= 0 /\ call.items[k] < hparams.num_items

\* what forward returns for pair k of the last call passed alone, under the
\* dropout masks drawn for that pair
Single(k) ==
  Preds(hparams.y_range,
        Scores(user_embeddings, item_embeddings, user_biases, item_biases, dropout,
               training, <<call.users[k]>>, <<call.items[k]>>,
               <<call.umask[k]>>, <<call.imask[k]>>))[1]

\* C4: for a valid batch of n pairs forward returns n predictions, and
\* prediction k is computed from users[k] and items[k]
C4_OnePredictionPerPair ==
  (call.op = "forward" /\ ValidBatch)
    => /\ call.error = None
       /\ Len(call.preds) = Len(call.users)
       /\ Len(call.preds) = Len(call.items)
       /\ \A k \in 1..N : call.preds[k] = Single(k)

C4_Witness ==
  /\ ForwardOk /\ N = 2 /\ Len(call.preds) = 2
  /\ call.users[1] # call.users[2] /\ call.items[1] # call.items[2]
  /\ call.preds[1] # call.preds[2]

\* the predictions of a model object in evaluation mode
EvalPreds(m, users, items) ==
  Preds(m.hparams.y_range,
        Scores(m.user_embeddings, m.item_embeddings, m.user_biases, m.item_biases,
               m.dropout, FALSE, users, items,
               MaskOf(0, Len(users), m.hparams.embedding_dim),
               MaskOf(0, Len(users), m.hparams.embedding_dim)))

\* C5: a model built from the checkpoint alone holds the tables and the
\* hyperparameters of the saved model and returns its predictions in
\* evaluation mode for every valid batch
C5_LoadReproducesModel ==
  new_model.status # "none"
    => /\ new_model.status = "loaded"
       /\ new_model.hparams = saved_model.hparams
       /\ new_model.user_biases = saved_model.user_biases
       /\ new_model.item_biases = saved_model.item_biases
       /\ new_model.user_embeddings = saved_model.user_embeddings
       /\ new_model.item_embeddings = saved_model.item_embeddings
       /\ new_model.dropout = saved_model.dropout
       /\ \A n \in 0..MaxBatch :
            \A users \in [1..n -> 0..(saved_model.hparams.num_users - 1)],
               items \in [1..n -> 0..(saved_model.hparams.num_items - 1)] :
              EvalPreds(new_model, users, items) = EvalPreds(saved_model, users, items)

C5_Witness ==
  /\ new_model.status = "loaded"
  /\ saved_model.hparams.y_range # NoRange /\ saved_model.hparams.dropout_p > 0
  /\ ~AllZero(saved_model.user_biases) /\ ~AllZero(saved_model.user_embeddings)
  /\ steps > 0 /\ ~training

\* C6: dropout acts on the embedding elements only and in training mode only:
\* in evaluation the score has no dropout term, in training the two biases
\* enter it unmasked and unscaled
C6_DropoutOnEmbeddingsInTraining ==
  ForwardOk
    => \A k \in 1..N :
         /\ call.scores[k] =
              (IF training THEN MaskedDotUpTo(k, hparams.embedding_dim)
               ELSE DotProduct(URow(k), IRow(k))) + UBias(k) + IBias(k)
         /\ call.preds[k] = Output(call.scores[k])

C6_Witness ==
  /\ ForwardOk /\ training /\ dropout > 0 /\ N >= 1
  /\ ~call.umask[1][1] /\ UBias(1) # 0 /\ IBias(1) # 0
  /\ call.scores[1] = UBias(1) + IBias(1)
  /\ DotProduct(URow(1), IRow(1)) # 0

\* a forward call with an out-of-range index ends in an IndexError, which is
\* what the caller gets, and returns no prediction
C7_IndexErrorState ==
  (call.op = "forward" /\ ~ValidBatch)
    => call.error = "IndexError" /\ call.preds = <<>> /\ call.scores = <<>>

\* a call that ends in an IndexError leaves the tables as they were
C7_IndexErrorStep == call'.error = "IndexError" => params' = params /\ hparams' = hparams

\* C7: a forward call with an out-of-range user or item index ends in an
\* IndexError and returns no prediction, and the failed call leaves the four
\* tables unchanged
C7_OutOfRangeFails == []C7_IndexErrorState /\ [][C7_IndexErrorStep]_vars

C7_Witness ==
  /\ call.op = "forward" /\ call.error = "IndexError" /\ steps > 0
  /\ Len(call.users) = 2 /\ call.users[1] = 0 /\ call.users[2] = -1

\* the table has n rows of d entries
HasShape(table, n, d) == Len(table) = n /\ \A r \in 1..n : Len(table[r]) = d

\* C8: after setup the four tables have the shapes the interaction counts and
\* embedding_dim give, the biases are zero, and before any optimizer step,
\* with dropout disabled and no y_range, the score of a pair is the dot
\* product of its rows
C8_SetupAllocatesTables ==
  phase = "ready"
    => /\ HasShape(user_embeddings, hparams.num_users, hparams.embedding_dim)
       /\ HasShape(item_embeddings, hparams.num_items, hparams.embedding_dim)
       /\ HasShape(user_biases, hparams.num_users, 1)
       /\ HasShape(item_biases, hparams.num_items, 1)
       /\ steps = 0 => AllZero(user_biases) /\ AllZero(item_biases)
       /\ (steps = 0 /\ ForwardOk /\ DropoutDisabled /\ hparams.y_range = NoRange)
            => \A k \in 1..N : call.preds[k] = DotProduct(URow(k), IRow(k))

C8_Witness ==
  /\ phase = "ready" /\ steps = 0 /\ ForwardOk /\ DropoutDisabled
  /\ hparams.y_range = NoRange /\ hparams.num_users # hparams.num_items
  /\ N >= 1 /\ call.preds[N] # 0

\* the raw scores the monotonicity is checked on: past both ends of the table
ScoreRange == (-(Len(SigTable) + 1))..(Len(SigTable) + 1)

\* C9: under a y_range the rescaling is monotonic in the raw score, and two
\* pairs with the same score get the same prediction
C9_RescaleMonotonic ==
  (phase = "ready" /\ hparams.y_range # NoRange)
    => /\ call = NoCall
            => \A s1, s2 \in ScoreRange :
                 s1 <= s2 => Rescale(hparams.y_range, s1) <= Rescale(hparams.y_range, s2)
       /\ ForwardOk
            => \A k1, k2 \in 1..N :
                 call.scores[k1] <= call.scores[k2] => call.preds[k1] <= call.preds[k2]

C9_Witness ==
  /\ ForwardOk /\ hparams.y_range # NoRange /\ N = 2
  /\ call.scores[1] < call.scores[2] /\ call.preds[1] < call.preds[2]
  /\ user_biases[1] # user_biases[2]

\* the tables and the hyperparameters change at setup and at optimizer steps only
C10_ParamsStep ==
  (params' # params \/ hparams' # hparams \/ dropout' # dropout)
    => (phase = "constructed" /\ phase' = "ready") \/ steps' = steps + 1

\* a call of forward or of the accessor changes nothing but the value returned
C10_CallStep ==
  call'.op \in {"forward", "get_item_embeddings"}
    => UNCHANGED <<hparams, params, dropout, training, phase, steps>>

\* in evaluation, forward called again on the same batch returns the same
C10_RepeatStep ==
  (call.op = "forward" /\ call'.op = "forward" /\ ~training)
    => (call'.users = call.users /\ call'.items = call.items
        /\ call'.preds = call.preds /\ call'.error = call.error)

\* the accessor returns the item table forward reads
C10_Accessor == call.op = "get_item_embeddings" => call.preds = item_embeddings

\* C10: forward and _get_item_embeddings leave the model as it was: the
\* tables and hyperparameters change at setup and optimizer steps only, a
\* repeated forward call in evaluation returns the same predictions, and the
\* accessor returns the item table
C10_CallsArePure ==
  /\ [][C10_ParamsStep]_vars
  /\ [][C10_CallStep]_vars
  /\ [][C10_RepeatStep]_vars
  /\ []C10_Accessor

C10_Witness ==
  /\ ForwardOk /\ ~training /\ steps > 0 /\ N = 2
  /\ hparams.dropout_p > 0 /\ call.preds[1] # call.preds[2]

====
